---- MODULE Spec2Model ----
(***************************************************************************)
(* Koinfo (src/app.py): the ledger-consistency rules of the finance        *)
(* tracker.  The persisted dataset is one JSON document                    *)
(* {categories, transactions, debts, goals, open_balance}; every API       *)
(* handler loads it, mutates the copy in memory and saves it whole.        *)
(*                                                                         *)
(* Each handler is an operator from the loaded dataset and the request to  *)
(* a record [data, status, ids]: the dataset the handler leaves on disk,   *)
(* the HTTP status it returns and the number of uuid4() values it stored.  *)
(* Names are sequences of one-character strings, so that str.strip() and   *)
(* str.casefold() are computed, not assumed.  Amounts are integers (the    *)
(* code uses floats; rounding is outside this model).                      *)
(***************************************************************************)
EXTENDS Integers, Sequences, FiniteSets, TLC

VARIABLES categories, transactions, debts, goals, open_balance,
          uuids,     \* number of uuid4() values stored by the handlers so far
          resp,      \* the last request: [op, status]
          debtBase,  \* history: debt id -> balance given at creation, while no
                     \* debt update has set its balance or kind
          locked,    \* history: linked category id -> name when its owner was deleted
          referenced, \* history: ids of the categories a transaction has referred to
          inflight   \* request thread -> the request it is serving, between
                     \* its _load_data() and its _save_data()

vars == <<categories, transactions, debts, goals, open_balance, uuids, resp,
          debtBase, locked, referenced, inflight>>

(***************************************************************************)
(* Bounds of the model.                                                    *)
(***************************************************************************)
MaxUuid   == 3    \* uuid4() values the handlers may store in one run
MaxAmount == 1    \* amounts and balances in requests are -1 or in 0..MaxAmount
MaxBalance == 2   \* requests that would take a balance or a progress above it are not sent
MaxUuidEdits == 5 \* uuid4() values stored in a run that edits transactions:
                  \* a Debt, a Goal, their linked categories and a transaction
MaxTxnEdits == 1  \* transactions on record at a time in such a run
MaxUuidOwners == 4 \* uuid4() values stored in a run about Debts and Goals:
                   \* two owners and their linked categories
MaxUuidRace == 4   \* uuid4() values minted in a run of overlapping requests:
                   \* a Debt, its linked category and two transactions

(***************************************************************************)
(* Strings.                                                                *)
(***************************************************************************)
\* str.casefold() on one character of the alphabet used here
FoldChar(c) ==
  CASE c = "A" -> "a"
    [] c = "D" -> "d"
    [] c = "G" -> "g"
    [] c = "I" -> "i"
    [] c = "N" -> "n"
    [] c = "S" -> "s"
    [] c = "U" -> "u"
    [] OTHER   -> c

Casefold(s) == [i \in 1..Len(s) |-> FoldChar(s[i])]

RECURSIVE LStrip(_)
LStrip(s) == IF s # <<>> /\ Head(s) = " " THEN LStrip(Tail(s)) ELSE s

RECURSIVE RStrip(_)
RStrip(s) ==
  IF s # <<>> /\ s[Len(s)] = " " THEN RStrip(SubSeq(s, 1, Len(s) - 1)) ELSE s

\* str.strip()
Strip(s) == RStrip(LStrip(s))

\* str(i) for a natural number, as a sequence of digits
RECURSIVE Digits(_)
Digits(i) ==
  IF i < 10 THEN <<ToString(i)>> ELSE Digits(i \div 10) \o <<ToString(i % 10)>>

\* name.strip().casefold(), the key every uniqueness check compares
Key(s) == Casefold(Strip(s))

\* Python's `x or default` on a string
OrElse(s, default) == IF s = <<>> THEN default ELSE s

\* Python's dict.get(k, default) on a request payload (a record whose
\* domain is the set of keys present)
Get(p, k, default) == IF k \in DOMAIN p THEN p[k] ELSE default

Salary       == <<"S","a","l","a","r","y">>
Groceries    == <<"G","r","o","c","e","r","i","e","s">>
Investments  == <<"I","n","v","e","s","t","m","e","n","t","s">>
DebtSuffix   == <<" ","-"," ","D","e","b","t">>
GoalSuffix   == <<" ","-"," ","G","o","a","l">>
DefaultDebt  == <<"D","e","b","t">>
DefaultGoal  == <<"G","o","a","l">>
UnnamedDebt  == <<"U","n","n","a","m","e","d"," ","D","e","b","t">>
NewGoal      == <<"N","e","w"," ","G","o","a","l">>

\* None, for an id
NoId == 0

(***************************************************************************)
(* The dataset.                                                            *)
(***************************************************************************)
Dataset(c, t, d, g, ob) ==
  [categories |-> c, transactions |-> t, debts |-> d, goals |-> g,
   open_balance |-> ob]

\* what _load_data() returns
data == Dataset(categories, transactions, debts, goals, open_balance)

Category(id, name, type) ==
  [id |-> id, name |-> name, type |-> type, deleted |-> FALSE]

\* ids of DEFAULT_DATA (made at import) and of the first-run file
NumSeed == 3

DEFAULT_DATA ==
  Dataset(<<Category(1, Salary, "income"), Category(2, Groceries, "expense"),
            Category(3, Investments, "saving")>>, <<>>, <<>>, <<>>, 0)

FirstRunData ==
  Dataset(<<Category(NumSeed + 1, Salary, "income"),
            Category(NumSeed + 2, Groceries, "expense"),
            Category(NumSeed + 3, Investments, "saving")>>, <<>>, <<>>, <<>>, 0)

\* the k-th uuid4() of a handler that runs after u values were stored
NewId(u, k) == 2 * NumSeed + u + k

\* index of the first element of seq with this id, 0 if none
IndexOf(seq, id) ==
  IF \E i \in 1..Len(seq) : seq[i].id = id
    THEN CHOOSE i \in 1..Len(seq) :
           seq[i].id = id /\ \A j \in 1..(i - 1) : seq[j].id # id
    ELSE 0

\* the lookup that takes the first owner of the list whatever its category
FirstOwner(owners, cid) == IF owners = <<>> THEN 0 ELSE 1

\* index of the first owner (debt or goal) linked to category cid, 0 if none
FirstLinked(owners, cid) ==
  IF \E i \in 1..Len(owners) : owners[i].linked_category_id = cid
    THEN CHOOSE i \in 1..Len(owners) :
           /\ owners[i].linked_category_id = cid
           /\ \A j \in 1..(i - 1) : owners[j].linked_category_id # cid
    ELSE 0

Without(seq, id) == SelectSeq(seq, LAMBDA x : x.id # id)

\* max() with the clamp forgotten
MaxUnclamped(a, b) == b

Max(a, b) == IF a >= b THEN a ELSE b
Abs(a) == IF a < 0 THEN -a ELSE a

\* a handler's result: the dataset on disk after it, its status, ids stored
Reply(d, status, n) == [data |-> d, status |-> status, ids |-> n]

(***************************************************************************)
(* Name helpers.                                                           *)
(***************************************************************************)
\* the keys of the active categories, the one to exclude among them
ActiveNamesWithExcluded(cats, exclude_id) ==
  { Key(cats[i].name) : i \in { j \in 1..Len(cats) : ~cats[j].deleted } }

\* keys of the active categories other than exclude_id
ActiveNames(cats, exclude_id) ==
  { Key(cats[i].name) :
      i \in { j \in 1..Len(cats) : cats[j].id # exclude_id /\ ~cats[j].deleted } }

RECURSIVE UniqueFrom(_, _, _)
UniqueFrom(base, names, i) ==
  LET cand == base \o <<" ">> \o Digits(i)
  IN  IF Casefold(cand) \notin names THEN cand ELSE UniqueFrom(base, names, i + 1)

\* the uniquifier with the collision check left out
unique_name_unchecked(d, desired, exclude_id) == Strip(desired)

_unique_name_excluding(d, desired, exclude_id) ==
  LET base  == Strip(desired)
      names == ActiveNames(d.categories, exclude_id)
  IN  IF Casefold(base) \notin names THEN base ELSE UniqueFrom(base, names, 2)

(***************************************************************************)
(* Linked category helpers.                                                *)
(***************************************************************************)
\* the helper that leaves the name of an existing linked category alone
EnsureLinkedTypeOnly(d, owner, ctype, base, id) ==
  LET cats == d.categories
      i    == IndexOf(cats, owner.linked_category_id)
  IN  IF owner.linked_category_id # NoId /\ i # 0
        THEN [categories |-> [cats EXCEPT ![i].type = ctype],
              owner |-> owner, ids |-> 0]
        ELSE [categories |->
                Append(cats, Category(id, _unique_name_excluding(d, base, NoId),
                                      ctype)),
              owner |-> [owner EXCEPT !.linked_category_id = id], ids |-> 1]

\* the helper that revives a category of the wanted name, deleted or not,
\* where the code appends a new one
EnsureLinkedReusing(d, owner, ctype, base, id) ==
  LET cats  == d.categories
      i     == IndexOf(cats, owner.linked_category_id)
      same  == { j \in 1..Len(cats) : Key(cats[j].name) = Casefold(Strip(base)) }
      j     == CHOOSE k \in same : TRUE
  IN  IF owner.linked_category_id # NoId /\ i # 0
        THEN [categories |->
                [cats EXCEPT ![i].type = ctype,
                             ![i].name = _unique_name_excluding(
                                           d, base, owner.linked_category_id)],
              owner |-> owner, ids |-> 0]
      ELSE IF same # {}
        THEN [categories |-> cats,
              owner |-> [owner EXCEPT !.linked_category_id = cats[j].id],
              ids |-> 0]
        ELSE [categories |->
                Append(cats, Category(id, _unique_name_excluding(d, base, NoId),
                                      ctype)),
              owner |-> [owner EXCEPT !.linked_category_id = id], ids |-> 1]

\* The shared body of _ensure_linked_category_for_debt/_goal: cats is
\* data["categories"], owner the debt or goal, id the uuid4() a new category
\* would get.  Gives the categories, the owner and the ids stored.
EnsureLinked(d, owner, ctype, base, id) ==
  LET cats == d.categories
      i    == IndexOf(cats, owner.linked_category_id)
  IN  IF owner.linked_category_id # NoId /\ i # 0
        THEN [categories |->
                [cats EXCEPT ![i].type = ctype,
                             ![i].name = _unique_name_excluding(
                                           d, base, owner.linked_category_id)],
              owner |-> owner, ids |-> 0]
        ELSE [categories |->
                Append(cats, Category(id, _unique_name_excluding(d, base, NoId),
                                      ctype)),
              owner |-> [owner EXCEPT !.linked_category_id = id], ids |-> 1]

_ensure_linked_category_for_debt(d, debt, id) ==
  LET ctype == IF debt.kind = "payable" THEN "expense" ELSE "income"
      base  == Strip(OrElse(debt.name, DefaultDebt)) \o DebtSuffix
  IN  EnsureLinked(d, debt, ctype, base, id)

_ensure_linked_category_for_goal(d, goal, id) ==
  LET base == Strip(OrElse(goal.name, DefaultGoal)) \o GoalSuffix
  IN  EnsureLinked(d, goal, "saving", base, id)

\* the helper that takes the linked category off the list
delete_linked_category_removing(cats, cat_id) ==
  SelectSeq(cats, LAMBDA c : c.id # cat_id)

\* soft-delete: the category stays in the list with deleted = True
_delete_linked_category(cats, cat_id) ==
  LET i == IndexOf(cats, cat_id)
  IN  IF cat_id = NoId \/ i = 0 THEN cats ELSE [cats EXCEPT ![i].deleted = TRUE]

(***************************************************************************)
(* Categories.                                                             *)
(***************************************************************************)
\* the duplicate check counting the soft-deleted categories too
api_add_category_counts_deleted(d, u, p) ==
  LET name  == Strip(Get(p, "name", <<>>))
      ctype == Get(p, "type", "expense")
  IN  IF name = <<>> THEN Reply(d, 400, 0)
      ELSE IF Casefold(name) \in { Key(d.categories[i].name) : i \in 1..Len(d.categories) }
        THEN Reply(d, 409, 0)
      ELSE Reply([d EXCEPT !.categories =
                     Append(@, Category(NewId(u, 1), name, ctype))], 201, 1)

api_add_category(d, u, p) ==
  LET name  == Strip(Get(p, "name", <<>>))
      ctype == Get(p, "type", "expense")
  IN  IF name = <<>> THEN Reply(d, 400, 0)
      ELSE IF Casefold(name) \in ActiveNames(d.categories, NoId)
        THEN Reply(d, 409, 0)
      ELSE Reply([d EXCEPT !.categories =
                     Append(@, Category(NewId(u, 1), name, ctype))], 201, 1)

api_update_category(d, cid, p) ==
  LET cats     == d.categories
      i        == IndexOf(cats, cid)
      new_name == Strip(Get(p, "name", <<>>))
      named    == IF "name" \in DOMAIN p
                    THEN [cats EXCEPT ![i].name = new_name] ELSE cats
      typed    == IF "type" \in DOMAIN p
                    THEN [named EXCEPT ![i].type = IF p.type = "" THEN @ ELSE p.type]
                    ELSE named
  IN  IF i = 0 THEN Reply(d, 404, 0)
      ELSE IF "name" \in DOMAIN p /\ new_name = <<>> THEN Reply(d, 400, 0)
      ELSE IF /\ "name" \in DOMAIN p
              /\ Casefold(new_name) # Key(cats[i].name)
              /\ Casefold(new_name) \in ActiveNames(cats, cid)
        THEN Reply(d, 409, 0)
      ELSE Reply([d EXCEPT !.categories = typed], 200, 0)

RemoveAt(seq, i) == SubSeq(seq, 1, i - 1) \o SubSeq(seq, i + 1, Len(seq))

\* the delete that soft-deletes the category whether or not a transaction
\* refers to it
api_delete_category_soft_only(d, cid) ==
  LET cats == d.categories
      i    == IndexOf(cats, cid)
  IN  IF FirstLinked(d.debts, cid) # 0 \/ FirstLinked(d.goals, cid) # 0
        THEN Reply(d, 409, 0)
      ELSE IF i = 0 THEN Reply(d, 404, 0)
      ELSE Reply([d EXCEPT !.categories = [cats EXCEPT ![i].deleted = TRUE]],
                 200, 0)

\* the delete that removes the category whatever refers to it
api_delete_category_always_removes(d, cid) ==
  LET cats == d.categories
      i    == IndexOf(cats, cid)
  IN  IF FirstLinked(d.debts, cid) # 0 \/ FirstLinked(d.goals, cid) # 0
        THEN Reply(d, 409, 0)
      ELSE IF i = 0 THEN Reply(d, 404, 0)
      ELSE Reply([d EXCEPT !.categories = RemoveAt(cats, i)], 200, 0)

\* the delete without the check for a linked Debt or Goal
api_delete_category_ignores_links(d, cid) ==
  LET cats      == d.categories
      i         == IndexOf(cats, cid)
      txn_count == Cardinality({ k \in 1..Len(d.transactions) :
                                   d.transactions[k].category_id = cid })
  IN  IF i = 0 THEN Reply(d, 404, 0)
      ELSE IF txn_count = 0
        THEN Reply([d EXCEPT !.categories = RemoveAt(cats, i)], 200, 0)
      ELSE Reply([d EXCEPT !.categories = [cats EXCEPT ![i].deleted = TRUE]],
                 200, 0)

api_delete_category(d, cid) ==
  LET cats      == d.categories
      i         == IndexOf(cats, cid)
      txn_count == Cardinality({ k \in 1..Len(d.transactions) :
                                   d.transactions[k].category_id = cid })
  IN  IF FirstLinked(d.debts, cid) # 0 \/ FirstLinked(d.goals, cid) # 0
        THEN Reply(d, 409, 0)
      ELSE IF i = 0 THEN Reply(d, 404, 0)
      ELSE IF txn_count = 0
        THEN Reply([d EXCEPT !.categories = RemoveAt(cats, i)], 200, 0)
      ELSE Reply([d EXCEPT !.categories = [cats EXCEPT ![i].deleted = TRUE]],
                 200, 0)

(***************************************************************************)
(* Debts.                                                                  *)
(***************************************************************************)
Kinds == {"payable", "receivable"}

\* the owners' names compared without case-folding
OwnerNamesCaseSensitive(owners, exclude_id) ==
  { Strip(owners[i].name) : i \in { j \in 1..Len(owners) : owners[j].id # exclude_id } }

\* keys of the owners (debts or goals) other than exclude_id
OwnerNames(owners, exclude_id) ==
  { Key(owners[i].name) : i \in { j \in 1..Len(owners) : owners[j].id # exclude_id } }

api_add_debt(d, u, p) ==
  LET name == Strip(OrElse(Get(p, "name", <<>>), UnnamedDebt))
      k    == Get(p, "kind", "payable")
      kind == IF k \in Kinds THEN k ELSE "payable"
      debt == [id |-> NewId(u, 1), name |-> name, balance |-> Get(p, "balance", 0),
               kind |-> kind, linked_category_id |-> NoId]
      e    == _ensure_linked_category_for_debt(d, debt, NewId(u, 2))
  IN  IF Casefold(name) \in OwnerNames(d.debts, NoId) THEN Reply(d, 409, 0)
      ELSE Reply([d EXCEPT !.categories = e.categories,
                           !.debts = Append(@, e.owner)], 201, 1 + e.ids)

api_update_debt(d, u, did, p) ==
  LET i        == IndexOf(d.debts, did)
      old      == d.debts[i]
      new_name == Strip(Get(p, "name", <<>>))
      named    == IF "name" \in DOMAIN p THEN [old EXCEPT !.name = new_name] ELSE old
      valued   == IF "balance" \in DOMAIN p
                    THEN [named EXCEPT !.balance = p.balance] ELSE named
      kinded   == IF "kind" \in DOMAIN p /\ p.kind \in Kinds
                    THEN [valued EXCEPT !.kind = p.kind] ELSE valued
      e        == _ensure_linked_category_for_debt(d, kinded, NewId(u, 1))
  IN  IF i = 0 THEN Reply(d, 404, 0)
      ELSE IF "name" \in DOMAIN p /\ new_name = <<>> THEN Reply(d, 400, 0)
      ELSE IF /\ "name" \in DOMAIN p
              /\ Casefold(new_name) # Key(old.name)
              /\ Casefold(new_name) \in OwnerNames(d.debts, did)
        THEN Reply(d, 409, 0)
      ELSE Reply([d EXCEPT !.categories = e.categories,
                           !.debts = [@ EXCEPT ![i] = e.owner]], 200, e.ids)

api_delete_debt(d, did) ==
  LET i      == IndexOf(d.debts, did)
      cat_id == IF i = 0 THEN NoId ELSE d.debts[i].linked_category_id
      after  == [d EXCEPT !.debts = Without(@, did),
                          !.categories = _delete_linked_category(@, cat_id)]
  IN  Reply(after, IF Len(after.debts) = Len(d.debts) THEN 404 ELSE 200, 0)

(***************************************************************************)
(* Goals.                                                                  *)
(***************************************************************************)
\* date.fromisoformat() succeeds; the dates of the model are "past" and
\* "future", every other string is not an ISO date
IsIsoDate(s) == s \in {"past", "future"}

\* not (dl <= date.today())
AfterToday(s) == s = "future"

api_add_goal(d, u, p) ==
  LET name     == Strip(OrElse(Get(p, "name", <<>>), NewGoal))
      deadline == Get(p, "deadline", "")
      goal     == [id |-> NewId(u, 1), name |-> name, target |-> Get(p, "target", 0),
                   current |-> 0, deadline |-> deadline, created |-> "today",
                   linked_category_id |-> NoId]
      e        == _ensure_linked_category_for_goal(d, goal, NewId(u, 2))
  IN  IF deadline = "" THEN Reply(d, 400, 0)
      ELSE IF ~IsIsoDate(deadline) THEN Reply(d, 400, 0)
      ELSE IF ~AfterToday(deadline) THEN Reply(d, 400, 0)
      ELSE IF Casefold(name) \in OwnerNames(d.goals, NoId) THEN Reply(d, 409, 0)
      ELSE Reply([d EXCEPT !.categories = e.categories,
                           !.goals = Append(@, e.owner)], 201, 1 + e.ids)

\* the goal update that saves what it has changed before it rejects the deadline
api_update_goal_saves_early(d, u, gid, p) ==
  LET i        == IndexOf(d.goals, gid)
      old      == d.goals[i]
      new_name == Strip(Get(p, "name", <<>>))
      named    == IF "name" \in DOMAIN p THEN [old EXCEPT !.name = new_name] ELSE old
      aimed    == IF "target" \in DOMAIN p
                    THEN [named EXCEPT !.target = p.target] ELSE named
      dated    == IF "deadline" \in DOMAIN p
                    THEN [aimed EXCEPT !.deadline = p.deadline] ELSE aimed
      e        == _ensure_linked_category_for_goal(d, dated, NewId(u, 1))
      partial  == [d EXCEPT !.goals = [@ EXCEPT ![i] = aimed]]
  IN  IF i = 0 THEN Reply(d, 404, 0)
      ELSE IF "name" \in DOMAIN p /\ new_name = <<>> THEN Reply(d, 400, 0)
      ELSE IF /\ "name" \in DOMAIN p
              /\ Casefold(new_name) # Key(old.name)
              /\ Casefold(new_name) \in OwnerNames(d.goals, gid)
        THEN Reply(d, 409, 0)
      ELSE IF "deadline" \in DOMAIN p /\ ~IsIsoDate(p.deadline) THEN Reply(partial, 400, 0)
      ELSE IF "deadline" \in DOMAIN p /\ ~AfterToday(p.deadline) THEN Reply(partial, 400, 0)
      ELSE Reply([d EXCEPT !.categories = e.categories,
                           !.goals = [@ EXCEPT ![i] = e.owner]], 200, e.ids)

\* the goal update that takes the progress from the payload
api_update_goal_takes_current(d, u, gid, p) ==
  LET i        == IndexOf(d.goals, gid)
      old      == d.goals[i]
      new_name == Strip(Get(p, "name", <<>>))
      named    == IF "name" \in DOMAIN p THEN [old EXCEPT !.name = new_name] ELSE old
      aimed    == IF "target" \in DOMAIN p
                    THEN [named EXCEPT !.target = p.target] ELSE named
      moved    == IF "current" \in DOMAIN p
                    THEN [aimed EXCEPT !.current = p.current] ELSE aimed
      dated    == IF "deadline" \in DOMAIN p
                    THEN [moved EXCEPT !.deadline = p.deadline] ELSE moved
      e        == _ensure_linked_category_for_goal(d, dated, NewId(u, 1))
  IN  IF i = 0 THEN Reply(d, 404, 0)
      ELSE IF "name" \in DOMAIN p /\ new_name = <<>> THEN Reply(d, 400, 0)
      ELSE IF /\ "name" \in DOMAIN p
              /\ Casefold(new_name) # Key(old.name)
              /\ Casefold(new_name) \in OwnerNames(d.goals, gid)
        THEN Reply(d, 409, 0)
      ELSE IF "deadline" \in DOMAIN p /\ ~IsIsoDate(p.deadline) THEN Reply(d, 400, 0)
      ELSE IF "deadline" \in DOMAIN p /\ ~AfterToday(p.deadline) THEN Reply(d, 400, 0)
      ELSE Reply([d EXCEPT !.categories = e.categories,
                           !.goals = [@ EXCEPT ![i] = e.owner]], 200, e.ids)

api_update_goal(d, u, gid, p) ==
  LET i        == IndexOf(d.goals, gid)
      old      == d.goals[i]
      new_name == Strip(Get(p, "name", <<>>))
      named    == IF "name" \in DOMAIN p THEN [old EXCEPT !.name = new_name] ELSE old
      aimed    == IF "target" \in DOMAIN p
                    THEN [named EXCEPT !.target = p.target] ELSE named
      dated    == IF "deadline" \in DOMAIN p
                    THEN [aimed EXCEPT !.deadline = p.deadline] ELSE aimed
      e        == _ensure_linked_category_for_goal(d, dated, NewId(u, 1))
  IN  IF i = 0 THEN Reply(d, 404, 0)
      ELSE IF "name" \in DOMAIN p /\ new_name = <<>> THEN Reply(d, 400, 0)
      ELSE IF /\ "name" \in DOMAIN p
              /\ Casefold(new_name) # Key(old.name)
              /\ Casefold(new_name) \in OwnerNames(d.goals, gid)
        THEN Reply(d, 409, 0)
      ELSE IF "deadline" \in DOMAIN p /\ ~IsIsoDate(p.deadline) THEN Reply(d, 400, 0)
      ELSE IF "deadline" \in DOMAIN p /\ ~AfterToday(p.deadline) THEN Reply(d, 400, 0)
      ELSE Reply([d EXCEPT !.categories = e.categories,
                           !.goals = [@ EXCEPT ![i] = e.owner]], 200, e.ids)

api_delete_goal(d, gid) ==
  LET i      == IndexOf(d.goals, gid)
      cat_id == IF i = 0 THEN NoId ELSE d.goals[i].linked_category_id
      after  == [d EXCEPT !.goals = Without(@, gid),
                          !.categories = _delete_linked_category(@, cat_id)]
  IN  Reply(after, IF Len(after.goals) = Len(d.goals) THEN 404 ELSE 200, 0)

(***************************************************************************)
(* Transactions.                                                           *)
(***************************************************************************)
\* the effect on a Debt without abs() and without the claim flag
add_debt_effect_signed(kind, amount, debt_claim) == -amount

\* the effect on a Debt of an update that takes every transaction for a payment
update_debt_effect_payment(kind, amount, debt_claim) == -Abs(amount)

\* the delete's copy of the Debt effect with the claim flag left out
delete_debt_effect_claim_blind(kind, amount, debt_claim) == -Abs(amount)

\* the three copies of _debt_effect and _goal_effect
add_debt_effect(kind, amount, debt_claim) ==
  LET amt == Abs(amount)
  IN  IF debt_claim THEN (IF kind = "receivable" THEN amt ELSE -amt) ELSE -amt

add_goal_effect(amount, goal_withdrawal) ==
  IF goal_withdrawal THEN -amount ELSE amount

update_debt_effect(kind, amount, debt_claim) ==
  LET amt == Abs(amount)
  IN  IF debt_claim THEN (IF kind = "receivable" THEN amt ELSE -amt) ELSE -amt

update_goal_effect(amount, goal_withdrawal) ==
  IF goal_withdrawal THEN -amount ELSE amount

delete_debt_effect(kind, amount, debt_claim) ==
  LET a == Abs(amount)
  IN  IF debt_claim THEN (IF kind = "receivable" THEN a ELSE -a) ELSE -a

delete_goal_effect(amount, goal_withdrawal) ==
  IF goal_withdrawal THEN -amount ELSE amount

api_add_txn(d, u, p) ==
  LET txn == [id |-> NewId(u, 1),
              date |-> IF Get(p, "date", "") = "" THEN "today" ELSE p.date,
              category_id |-> Get(p, "category_id", NoId),
              amount |-> Get(p, "amount", 0),
              note |-> Get(p, "note", ""),
              use_open_balance |-> Get(p, "use_open_balance", FALSE),
              debt_claim |-> Get(p, "debt_claim", FALSE),
              goal_withdrawal |-> Get(p, "goal_withdrawal", FALSE)]
      c   == IndexOf(d.categories, txn.category_id)
      di  == FirstLinked(d.debts, txn.category_id)
      gi  == FirstLinked(d.goals, txn.category_id)
      typed == [f \in DOMAIN txn \cup {"type"} |->
                  IF f = "type" THEN d.categories[c].type ELSE txn[f]]
  IN  IF c = 0 THEN Reply(d, 400, 0)
      ELSE Reply(
        [d EXCEPT
           !.transactions = Append(@, typed),
           !.debts = IF di = 0 THEN @
                     ELSE [@ EXCEPT ![di].balance =
                             Max(0, @ + add_debt_effect(d.debts[di].kind, txn.amount,
                                                        txn.debt_claim))],
           !.goals = IF gi = 0 THEN @
                     ELSE [@ EXCEPT ![gi].current =
                             Max(0, @ + add_goal_effect(txn.amount,
                                                        txn.goal_withdrawal))]],
        201, 1)

\* a flag read as in a create: false when the request leaves it out
ResetFlag(p, k, stored) == Get(p, k, FALSE)

\* `if k in p: bool(p.get(k)) else: <stored value>`
KeepFlag(p, k, stored) == IF k \in DOMAIN p THEN p[k] ELSE stored

api_update_txn(d, tid, p) ==
  LET ti  == IndexOf(d.transactions, tid)
      old == d.transactions[ti]
      old_cat == old.category_id
      old_amt == old.amount
      old_debt_claim == old.debt_claim
      old_goal_withdrawal == old.goal_withdrawal
      new_date == Get(p, "date", old.date)
      new_cat  == Get(p, "category_id", old.category_id)
      new_amt  == Get(p, "amount", old.amount)
      new_note == Get(p, "note", old.note)
      new_use_open == KeepFlag(p, "use_open_balance", old.use_open_balance)
      new_debt_claim == KeepFlag(p, "debt_claim", old_debt_claim)
      new_goal_withdrawal == KeepFlag(p, "goal_withdrawal", old_goal_withdrawal)
      cat == IndexOf(d.categories, new_cat)
      \* revert old
      odi == IF old_cat = NoId THEN 0 ELSE FirstLinked(d.debts, old_cat)
      ogi == IF old_cat = NoId THEN 0 ELSE FirstLinked(d.goals, old_cat)
      debts1 == IF odi = 0 THEN d.debts
                ELSE [d.debts EXCEPT ![odi].balance =
                        Max(0, @ - update_debt_effect(d.debts[odi].kind, old_amt,
                                                      old_debt_claim))]
      goals1 == IF ogi = 0 THEN d.goals
                ELSE [d.goals EXCEPT ![ogi].current =
                        Max(0, @ - update_goal_effect(old_amt, old_goal_withdrawal))]
      \* apply new
      ndi == IF new_cat = NoId THEN 0 ELSE FirstLinked(debts1, new_cat)
      ngi == IF new_cat = NoId THEN 0 ELSE FirstLinked(goals1, new_cat)
      debts2 == IF ndi = 0 THEN debts1
                ELSE [debts1 EXCEPT ![ndi].balance =
                        Max(0, @ + update_debt_effect(debts1[ndi].kind, new_amt,
                                                      new_debt_claim))]
      goals2 == IF ngi = 0 THEN goals1
                ELSE [goals1 EXCEPT ![ngi].current =
                        Max(0, @ + update_goal_effect(new_amt, new_goal_withdrawal))]
      updated == [old EXCEPT !.date = new_date, !.category_id = new_cat,
                             !.amount = new_amt, !.note = new_note,
                             !.type = d.categories[cat].type,
                             !.use_open_balance = new_use_open,
                             !.debt_claim = new_debt_claim,
                             !.goal_withdrawal = new_goal_withdrawal]
  IN  IF ti = 0 THEN Reply(d, 404, 0)
      ELSE IF cat = 0 THEN Reply(d, 400, 0)
      ELSE Reply([d EXCEPT !.transactions = [@ EXCEPT ![ti] = updated],
                           !.debts = debts2, !.goals = goals2], 200, 0)

api_delete_txn(d, tid) ==
  LET ti     == IndexOf(d.transactions, tid)
      txn    == d.transactions[ti]
      cat_id == txn.category_id
      di     == FirstLinked(d.debts, cat_id)
      gi     == FirstLinked(d.goals, cat_id)
  IN  IF ti = 0 THEN Reply(d, 404, 0)
      ELSE Reply(
        [d EXCEPT
           !.debts = IF di = 0 THEN @
                     ELSE [@ EXCEPT ![di].balance =
                             Max(0, @ - delete_debt_effect(d.debts[di].kind, txn.amount,
                                                           txn.debt_claim))],
           !.goals = IF gi = 0 THEN @
                     ELSE [@ EXCEPT ![gi].current =
                             Max(0, @ - delete_goal_effect(txn.amount,
                                                           txn.goal_withdrawal))],
           !.transactions = Without(@, tid)],
        200, 0)

(***************************************************************************)
(* Opening balance and reset.                                              *)
(***************************************************************************)
api_update_open_balance(d, p) ==
  Reply([d EXCEPT !.open_balance = Get(p, "open_balance", 0)], 200, 0)

api_reset_data == Reply(DEFAULT_DATA, 200, 0)

(***************************************************************************)
(* Requests.  The handlers take any JSON payload; a specification draws    *)
(* them from the finite sets of its profile m: "ledger" varies the amounts *)
(* and flags of transactions and the balances and kinds of debts, "names"  *)
(* varies the names, "errors" sends one request of each failing shape and  *)
(* records the response, "edits" has a Debt, a Goal and transactions that  *)
(* are edited, each edit leaving the note "edited", "owners" creates,       *)
(* renames and deletes two Debts or Goals.                                 *)
(***************************************************************************)
\* payloads with an optional key k whose value ranges over S
Opt(k, S) == {<<>>} \cup { [x \in {k} |-> v] : v \in S }

\* payloads where key k is present, with a value of S
Req(k, S) == { [x \in {k} |-> v] : v \in S }

IdsOf(seq) == { seq[i].id : i \in 1..Len(seq) }

\* ids a request may name: those of the list, and one id that matches nothing
\* (every id absent from the list is answered alike)
RequestIds(seq) == IdsOf(seq) \cup {NoId}

\* ids of the Debts or Goals a delete may name: the requests that edit
\* transactions keep their owners
OwnerDeleteIds(m, owners) == IF m = "edits" THEN {NoId} ELSE RequestIds(owners)

\* amounts of transactions: one negative amount, and 0..MaxAmount
Amounts == {-1} \cup (0..MaxAmount)

\* Category ids a request may name: the requests leave the seed categories
\* (Salary, Groceries, Investments) alone and work on those they create.
CategoryIds(m) == RequestIds(categories) \ (1..(2 * NumSeed))

NameA    == <<"a">>
NameAPad == <<" ", "A", " ">>
NameB    == <<"b">>
NameBlank == <<" ">>

CategoryCreatePayloads(m) ==
  CASE m \in {"ledger", "edits", "owners", "frames"} -> {<<>>}
    [] m = "names"  -> Req("name", {NameA, NameAPad, NameA \o DebtSuffix})
    [] OTHER        -> Req("name", {NameA, <<>>})

CategoryUpdatePayloads(m) ==
  CASE m \in {"ledger", "edits", "frames"} -> {<<>>}
    [] m = "owners" -> Req("name", {NameA \o DebtSuffix})
    [] m = "names"  -> Req("name", {NameAPad, NameA \o DebtSuffix})
    [] OTHER        -> Req("name", {NameA, <<>>})

DebtCreatePayloads(m) ==
  CASE m = "ledger" ->
         { b @@ c : b \in Opt("balance", {-1, MaxAmount}),
                    c \in Opt("kind", {"receivable"}) }
    [] m \in {"edits", "frames"} -> {[balance |-> MaxAmount]}
    [] m = "names"  -> Req("name", {NameA, NameAPad, NameB})
    [] m = "owners" -> Req("name", {NameA, NameAPad, NameB, NameBlank})
    [] OTHER        -> Req("name", {NameA, NameB})

DebtUpdatePayloads(m) ==
  CASE m = "ledger" ->
         Req("balance", {-1, MaxAmount}) \cup Req("kind", {"receivable", "payable", "other"})
    [] m \in {"edits", "frames"} -> {[kind |-> "receivable"]}
    [] m = "names"  -> Req("name", {NameA, NameB})
    [] m = "owners" -> Req("name", {NameAPad, NameB}) \cup Req("kind", {"receivable"})
    [] OTHER        ->
         {[name |-> NameB], [name |-> <<>>, balance |-> MaxAmount]}

GoalCreatePayloads(m) ==
  CASE m = "ledger" -> {[deadline |-> "future", current |-> MaxBalance]}
    [] m \in {"edits", "frames"} -> {[deadline |-> "future"]}
    [] m = "names"  -> {[name |-> NameAPad, deadline |-> "future"]}
    [] m = "owners" ->
         { a @@ [deadline |-> "future"] : a \in Req("name", {NameA, NameBlank}) }
    [] OTHER        ->
         { a @@ c : a \in Req("name", {NameA, NameB}),
                    c \in Opt("deadline", {"future", "past", "someday"}) }

GoalUpdatePayloads(m) ==
  CASE m = "ledger" -> {[target |-> 5, current |-> MaxBalance], [current |-> 0]}
    [] m \in {"edits", "frames"} -> {[target |-> 5]}
    [] m = "names"  -> {[name |-> NameB]}
    [] m = "owners" -> Req("name", {NameAPad, NameB})
    [] OTHER        ->
         {[name |-> NameB], [name |-> NameB, deadline |-> "past"],
          [target |-> 5, deadline |-> "someday"]}

TxnCreatePayloads(m) ==
  CASE m = "ledger" ->
         { a @@ b @@ c : a \in Req("category_id", CategoryIds(m)),
                         b \in Req("amount", Amounts),
                         c \in {<<>>, [debt_claim |-> TRUE], [goal_withdrawal |-> TRUE]} }
    [] m = "edits"  ->
         { a @@ [amount |-> MaxAmount] @@ c :
             a \in Req("category_id", CategoryIds(m)),
             c \in {<<>>, [debt_claim |-> TRUE, goal_withdrawal |-> TRUE,
                           use_open_balance |-> TRUE]} }
    [] m = "frames" ->
         { a @@ [amount |-> MaxAmount] : a \in Req("category_id", CategoryIds(m)) }
    [] OTHER        -> Opt("category_id", CategoryIds(m))

TxnUpdatePayloads(m) ==
  CASE m = "ledger" ->
         Req("category_id", CategoryIds(m)) \cup Req("amount", Amounts)
           \cup {[debt_claim |-> FALSE], [goal_withdrawal |-> FALSE]}
    [] m = "edits"  ->
         { a @@ [note |-> "edited"] :
             a \in Req("category_id", CategoryIds(m)) \cup Req("amount", {0, MaxAmount}) }
    [] m = "frames" -> Req("category_id", CategoryIds(m)) \cup {[amount |-> 0]}
    [] OTHER        -> Opt("category_id", CategoryIds(m))

OpenBalancePayloads(m) ==
  IF m \in {"errors", "frames"} THEN Opt("open_balance", {MaxAmount}) ELSE {<<>>}

\* whether the profile records the responses
Records(m) == m = "errors"

\* uuid4() values the requests of the profile may store
UuidBound(m) ==
  CASE m \in {"edits", "frames"} -> MaxUuidEdits
    [] m = "owners" -> MaxUuidOwners
    [] m = "race"   -> MaxUuidRace
    [] OTHER        -> MaxUuid

\* transactions the requests of the profile may leave on record
TxnBound(m) == IF m \in {"edits", "frames"} THEN MaxTxnEdits ELSE UuidBound(m)

\* whether the profile keeps the history of the referenced categories
Traces(m) == m = "names"

(***************************************************************************)
(* The state machine: one action per API handler.                          *)
(***************************************************************************)
EmptyMap == [x \in {} |-> 0]

NoResponse == [op |-> "none", status |-> 200]

\* the request threads of the server (app.run() serves each request in a
\* thread of its own)
Threads == {1, 2}

\* a thread that serves no request
Idle == [busy |-> FALSE, status |-> 200,
         loaded |-> Dataset(<<>>, <<>>, <<>>, <<>>, 0),
         mem |-> Dataset(<<>>, <<>>, <<>>, <<>>, 0)]

Init ==
  /\ categories = FirstRunData.categories
  /\ transactions = FirstRunData.transactions
  /\ debts = FirstRunData.debts
  /\ goals = FirstRunData.goals
  /\ open_balance = FirstRunData.open_balance
  /\ uuids = 0
  /\ resp = NoResponse
  /\ debtBase = EmptyMap
  /\ locked = EmptyMap
  /\ referenced = {}
  /\ inflight = [t \in Threads |-> Idle]

\* _save_data(), and the response
Save(m, op, r) ==
  /\ uuids + r.ids <= UuidBound(m)
  /\ Len(r.data.transactions) <= TxnBound(m)
  /\ \A i \in 1..Len(r.data.debts) : r.data.debts[i].balance <= MaxBalance
  /\ \A i \in 1..Len(r.data.goals) : r.data.goals[i].current <= MaxBalance
  /\ categories' = r.data.categories
  /\ transactions' = r.data.transactions
  /\ debts' = r.data.debts
  /\ goals' = r.data.goals
  /\ open_balance' = r.data.open_balance
  /\ uuids' = uuids + r.ids
  /\ resp' = IF Records(m) THEN [op |-> op, status |-> r.status] ELSE NoResponse
  /\ referenced' = IF ~Traces(m) \/ op = "reset_data" THEN {}
                   ELSE referenced \cup { r.data.transactions[i].category_id :
                                            i \in 1..Len(r.data.transactions) }
  /\ UNCHANGED inflight

\* history: the names of the linked categories of deleted owners, while the
\* category is in the list
LockedAfter(before, after) ==
  LET gone == { o.linked_category_id :
                  o \in { before.debts[i] : i \in 1..Len(before.debts) }
                        \cup { before.goals[i] : i \in 1..Len(before.goals) } }
              \ ( { after.debts[i].linked_category_id : i \in 1..Len(after.debts) }
                  \cup { after.goals[i].linked_category_id : i \in 1..Len(after.goals) } )
      kept == IdsOf(after.categories)
  IN  [x \in (DOMAIN locked \cup gone) \cap kept |->
         IF x \in DOMAIN locked THEN locked[x]
         ELSE before.categories[IndexOf(before.categories, x)].name]

\* history: the balance each debt was created with; dropped when a debt
\* update carries a balance or a kind, or the debt goes
BaseAfter(after, reset) ==
  [x \in (DOMAIN debtBase \cap IdsOf(after.debts)) \ reset |-> debtBase[x]]

AddCategory(m) ==
  \E p \in CategoryCreatePayloads(m) :
    /\ Save(m, "add_category", api_add_category(data, uuids, p))
    /\ UNCHANGED <<debtBase, locked>>

UpdateCategory(m) ==
  \E cid \in CategoryIds(m), p \in CategoryUpdatePayloads(m) :
    /\ Save(m, "update_category", api_update_category(data, cid, p))
    /\ UNCHANGED <<debtBase, locked>>

DeleteCategory(m) ==
  \E cid \in CategoryIds(m) :
    LET r == api_delete_category(data, cid)
    IN  /\ Save(m, "delete_category", r)
        /\ locked' = LockedAfter(data, r.data)
        /\ UNCHANGED debtBase

AddDebt(m) ==
  \E p \in DebtCreatePayloads(m) :
    LET r == api_add_debt(data, uuids, p)
    IN  /\ Save(m, "add_debt", r)
        /\ debtBase' = IF r.status = 201
                         THEN (NewId(uuids, 1) :> r.data.debts[Len(r.data.debts)].balance)
                              @@ debtBase
                         ELSE debtBase
        /\ UNCHANGED locked

UpdateDebt(m) ==
  \E did \in RequestIds(debts), p \in DebtUpdatePayloads(m) :
    LET r == api_update_debt(data, uuids, did, p)
    IN  /\ Save(m, "update_debt", r)
        /\ debtBase' = BaseAfter(r.data,
                                 IF r.status = 200 /\ DOMAIN p \cap {"balance", "kind"} # {}
                                   THEN {did} ELSE {})
        /\ UNCHANGED locked

DeleteDebt(m) ==
  \E did \in OwnerDeleteIds(m, debts) :
    LET r == api_delete_debt(data, did)
    IN  /\ Save(m, "delete_debt", r)
        /\ debtBase' = BaseAfter(r.data, {})
        /\ locked' = LockedAfter(data, r.data)

AddGoal(m) ==
  \E p \in GoalCreatePayloads(m) :
    /\ Save(m, "add_goal", api_add_goal(data, uuids, p))
    /\ UNCHANGED <<debtBase, locked>>

UpdateGoal(m) ==
  \E gid \in RequestIds(goals), p \in GoalUpdatePayloads(m) :
    /\ Save(m, "update_goal", api_update_goal(data, uuids, gid, p))
    /\ UNCHANGED <<debtBase, locked>>

DeleteGoal(m) ==
  \E gid \in OwnerDeleteIds(m, goals) :
    LET r == api_delete_goal(data, gid)
    IN  /\ Save(m, "delete_goal", r)
        /\ locked' = LockedAfter(data, r.data)
        /\ UNCHANGED debtBase

AddTxn(m) ==
  \E p \in TxnCreatePayloads(m) :
    /\ Save(m, "add_txn", api_add_txn(data, uuids, p))
    /\ UNCHANGED <<debtBase, locked>>

UpdateTxn(m) ==
  \E tid \in RequestIds(transactions), p \in TxnUpdatePayloads(m) :
    /\ Save(m, "update_txn", api_update_txn(data, tid, p))
    /\ UNCHANGED <<debtBase, locked>>

DeleteTxn(m) ==
  \E tid \in RequestIds(transactions) :
    /\ Save(m, "delete_txn", api_delete_txn(data, tid))
    /\ UNCHANGED <<debtBase, locked>>

UpdateOpenBalance(m) ==
  \E p \in OpenBalancePayloads(m) :
    /\ Save(m, "update_open_balance", api_update_open_balance(data, p))
    /\ UNCHANGED <<debtBase, locked>>

ResetData(m) ==
  /\ Save(m, "reset_data", api_reset_data)
  /\ debtBase' = EmptyMap
  /\ locked' = EmptyMap

Next(m) ==
  \/ AddCategory(m) \/ UpdateCategory(m) \/ DeleteCategory(m)
  \/ AddDebt(m) \/ UpdateDebt(m) \/ DeleteDebt(m)
  \/ AddGoal(m) \/ UpdateGoal(m) \/ DeleteGoal(m)
  \/ AddTxn(m) \/ UpdateTxn(m) \/ DeleteTxn(m)
  \/ UpdateOpenBalance(m) \/ ResetData(m)

SpecLedger == Init /\ [][Next("ledger")]_vars
SpecNames  == Init /\ [][Next("names")]_vars
SpecErrors == Init /\ [][Next("errors")]_vars
SpecEdits  == Init /\ [][Next("edits")]_vars
SpecOwners == Init /\ [][Next("owners")]_vars
SpecFrames == Init /\ [][Next("frames")]_vars

(***************************************************************************)
(* Overlapping requests: a handler is a _load_data(), a change of the      *)
(* loaded dict in memory and a _save_data(); nothing orders the steps of   *)
(* two threads.                                                            *)
(***************************************************************************)
\* a save that keeps the transactions the file has and the dict has not
save_data_merging(d, file) ==
  [d EXCEPT !.transactions =
     d.transactions \o SelectSeq(file.transactions,
                                 LAMBDA t : t.id \notin IdsOf(d.transactions))]

\* the file after _save_data(d): open(DATA_FILE, "w") truncates the file and
\* json.dump writes the whole dict, nothing of the file's content is kept
_save_data(d, file) == d

\* requests sent while others are being served
RaceDebtPayloads == {[balance |-> MaxBalance]}

RaceTxnPayloads ==
  { [category_id |-> c, amount |-> MaxAmount] : c \in CategoryIds("race") }

\* thread t has loaded the file and run the handler on the dict up to its
\* _save_data() or its error return
Begin(t, r) ==
  /\ uuids + r.ids <= UuidBound("race")
  /\ inflight' = [inflight EXCEPT ![t] =
                    [busy |-> TRUE, status |-> r.status, loaded |-> data,
                     mem |-> r.data]]
  /\ uuids' = uuids + r.ids
  /\ UNCHANGED <<categories, transactions, debts, goals, open_balance, resp,
                 debtBase, locked, referenced>>

BeginAddDebt(t) ==
  /\ ~inflight[t].busy
  /\ \E p \in RaceDebtPayloads : Begin(t, api_add_debt(data, uuids, p))

BeginAddTxn(t) ==
  /\ ~inflight[t].busy
  /\ \E p \in RaceTxnPayloads : Begin(t, api_add_txn(data, uuids, p))

\* thread t saves its dict and answers, or answers an error without saving
Finish(t) ==
  /\ inflight[t].busy
  /\ LET file == IF inflight[t].status < 400
                   THEN _save_data(inflight[t].mem, data) ELSE data
     IN  /\ categories' = file.categories
         /\ transactions' = file.transactions
         /\ debts' = file.debts
         /\ goals' = file.goals
         /\ open_balance' = file.open_balance
  /\ inflight' = [inflight EXCEPT ![t] = Idle]
  /\ UNCHANGED <<uuids, resp, debtBase, locked, referenced>>

NextRace ==
  \E t \in Threads : BeginAddDebt(t) \/ BeginAddTxn(t) \/ Finish(t)

SpecRace == Init /\ [][NextRace]_vars

(***************************************************************************)
(* Properties.                                                             *)
(***************************************************************************)
Range(seq) == { seq[i] : i \in 1..Len(seq) }

\* the effect functions as section 4.3 of the specification states them
debtEffect(kind, amount, debt_claim) ==
  IF debt_claim /\ kind = "receivable" THEN Abs(amount) ELSE -Abs(amount)

goalEffect(amount, goal_withdrawal) == IF goal_withdrawal THEN -amount ELSE amount

\* replay of the live transactions of category cid, in list order, from v
RECURSIVE ReplayDebt(_, _, _, _)
ReplayDebt(v, txns, cid, kind) ==
  IF txns = <<>> THEN v
  ELSE ReplayDebt(
         IF Head(txns).category_id = cid
           THEN Max(0, v + debtEffect(kind, Head(txns).amount, Head(txns).debt_claim))
           ELSE v,
         Tail(txns), cid, kind)

RECURSIVE ReplayGoal(_, _, _)
ReplayGoal(v, txns, cid) ==
  IF txns = <<>> THEN v
  ELSE ReplayGoal(
         IF Head(txns).category_id = cid
           THEN Max(0, v + goalEffect(Head(txns).amount, Head(txns).goal_withdrawal))
           ELSE v,
         Tail(txns), cid)

\* C1: after any sequence of transaction creates, updates and deletes, the
\* balance of a Debt (whose balance and kind no debt update has set) and the
\* current of a Goal equal the replay of the live transactions of the linked
\* category from the owner's starting value, clamped at 0.
C1_ReplayOfLiveTransactions ==
  /\ \A d \in Range(debts) :
       d.id \in DOMAIN debtBase =>
         d.balance = ReplayDebt(debtBase[d.id], transactions,
                                d.linked_category_id, d.kind)
  /\ \A g \in Range(goals) :
       g.current = ReplayGoal(0, transactions, g.linked_category_id)

\* C2: creating a transaction on a Goal's linked category and then deleting
\* that transaction leaves Goal.current as it was before the create, for
\* every amount and either value of goal_withdrawal.
C2_GoalRoundTrip ==
  \A gi \in 1..Len(goals), a \in Amounts, w \in BOOLEAN :
    LET p  == [category_id |-> goals[gi].linked_category_id, amount |-> a,
               goal_withdrawal |-> w]
        r1 == api_add_txn(data, uuids, p)
        r2 == api_delete_txn(r1.data, NewId(uuids, 1))
    IN  r2.data.goals[gi].current = goals[gi].current

\* C3: every Debt has balance >= 0 in every reachable state.
C3_DebtBalanceNonNegative == \A d \in Range(debts) : d.balance >= 0

\* C4: every Goal has current >= 0 in every reachable state.
C4_GoalCurrentNonNegative == \A g \in Range(goals) : g.current >= 0

\* a Goal at 0 with a live transaction of negative effect on its category:
\* the create was clamped
C4_ClampedWithdrawal ==
  \E g \in Range(goals), t \in Range(transactions) :
    /\ t.category_id = g.linked_category_id
    /\ goalEffect(t.amount, t.goal_withdrawal) < 0
    /\ g.current = 0

\* ids of the categories some Debt or Goal is linked to
LinkedIds ==
  { debts[i].linked_category_id : i \in 1..Len(debts) }
    \cup { goals[i].linked_category_id : i \in 1..Len(goals) }

\* C5: no two distinct active categories have names that are equal after
\* trimming and case-folding.
C5_ActiveNamesUnique ==
  \A i, j \in 1..Len(categories) :
    (i # j /\ ~categories[i].deleted /\ ~categories[j].deleted)
      => Key(categories[i].name) # Key(categories[j].name)

\* a Debt whose linked category had to take the suffix " 2": its base name
\* was held by another active category
C5_Uniquified ==
  \E d \in Range(debts), c \in Range(categories), o \in Range(categories) :
    /\ c.id = d.linked_category_id
    /\ c.name = Strip(d.name) \o DebtSuffix \o <<" ", "2">>
    /\ o.id # c.id /\ ~o.deleted
    /\ Key(o.name) = Key(Strip(d.name) \o DebtSuffix)

\* C6: every transaction's category_id is the id of a category in the
\* categories list, active or soft-deleted.
C6_TransactionsResolve ==
  \A t \in Range(transactions) : t.category_id \in IdsOf(categories)

\* a transaction whose category was deleted after it was recorded
C6_ReferencedSoftDeleted ==
  \E t \in Range(transactions), c \in Range(categories) :
    c.id = t.category_id /\ c.deleted

\* C7: every Debt and Goal is linked to a category of the list, and a
\* category delete that names the linked category of a Debt or Goal is
\* answered 409 and leaves the dataset as it was.
C7_LinkedCategoryKept ==
  /\ LinkedIds \subseteq IdsOf(categories)
  /\ \A cid \in LinkedIds : api_delete_category(data, cid) = Reply(data, 409, 0)

\* a category delete was refused while a Debt or Goal exists
C7_DeleteRefused ==
  /\ resp = [op |-> "delete_category", status |-> 409]
  /\ LinkedIds # {}

\* C8: once the linked category of a deleted Debt or Goal is soft-deleted it
\* stays deleted, no Debt or Goal links to it, and it keeps the name it had
\* when it was soft-deleted.
C8_SoftDeletedLocked ==
  \A c \in Range(categories) :
    c.id \in DOMAIN locked =>
      c.deleted /\ c.id \notin LinkedIds /\ c.name = locked[c.id]

\* C9: a request answered with an error status leaves categories,
\* transactions, debts, goals and open_balance as they were.
C9_ErrorsChangeNothing ==
  [][resp'.status >= 400 =>
       UNCHANGED <<categories, transactions, debts, goals, open_balance>>]_vars

\* a goal update was rejected for its deadline; the payloads of the profile
\* that fail so carry a valid name or target as well
C9_GoalUpdateRejected ==
  /\ resp = [op |-> "update_goal", status |-> 400]
  /\ goals # <<>>

\* names the probes of C10 try
ProbeNames == {NameA, NameAPad, NameB, NameA \o DebtSuffix, Salary}

ActiveWithKey(k, except) ==
  \E c \in Range(categories) : c.id # except /\ ~c.deleted /\ Key(c.name) = k

\* what C10 says of a create of name n
CreateByActiveNames(n) ==
  LET r == api_add_category(data, uuids, [name |-> n])
  IN  IF ActiveWithKey(Key(n), NoId)
        THEN r = Reply(data, 409, 0)
        ELSE /\ r.status = 201
             /\ NewId(uuids, 1) \notin IdsOf(categories)
             /\ r.data = [data EXCEPT !.categories =
                            Append(@, [id |-> NewId(uuids, 1), name |-> Strip(n),
                                       type |-> "expense", deleted |-> FALSE])]

\* a rename of the i-th category to n is answered 409 and changes nothing
\* when refused holds, and else succeeds and sets the trimmed name
RenameRefusedWhen(i, n, refused) ==
  LET r == api_update_category(data, categories[i].id, [name |-> n])
  IN  IF refused
        THEN r = Reply(data, 409, 0)
        ELSE /\ r.status = 200
             /\ r.data = [data EXCEPT !.categories[i].name = Strip(n)]

\* C10: a category create or rename is answered 409 and changes nothing when
\* the trimmed, case-folded name is that of another active category; else it
\* succeeds, a create appending an active category with a fresh id and
\* leaving every other category, soft-deleted ones included, as it was.
C10_DuplicateNameOnlyAmongActive ==
  \A n \in ProbeNames :
    /\ CreateByActiveNames(n)
    /\ \A i \in 1..Len(categories) :
         RenameRefusedWhen(i, n, ActiveWithKey(Key(n), categories[i].id))

\* C10 as amended: as above, but a rename to the category's own current name
\* (trimmed, case-folded) succeeds even when another active category has
\* that name, which happens when the renamed category is soft-deleted.
C10_RenameToOwnNameAccepted ==
  \A n \in ProbeNames :
    /\ CreateByActiveNames(n)
    /\ \A i \in 1..Len(categories) :
         RenameRefusedWhen(i, n, /\ ActiveWithKey(Key(n), categories[i].id)
                                 /\ Key(n) # Key(categories[i].name))

\* an active category that no Debt or Goal owns bears the name of a
\* soft-deleted category that was there before it
C10_NameOfSoftDeletedTaken ==
  \E i, j \in 1..Len(categories) :
    /\ categories[i].deleted /\ ~categories[j].deleted
    /\ categories[j].id \notin LinkedIds
    /\ categories[i].id < categories[j].id
    /\ Key(categories[i].name) = Key(categories[j].name)

\* C11: deleting a category of the list that no Debt or Goal links to is
\* answered 200; it removes the category from the list when no transaction
\* of the dataset refers to it at that moment, and else keeps it in place
\* with deleted = true; nothing else changes.
C11_DeleteByLiveReferences ==
  \A i \in 1..Len(categories) :
    LET cid == categories[i].id
        r   == api_delete_category(data, cid)
    IN  cid \notin LinkedIds =>
          /\ r.status = 200
          /\ r.data =
               [data EXCEPT !.categories =
                  IF \E t \in Range(transactions) : t.category_id = cid
                    THEN [categories EXCEPT ![i].deleted = TRUE]
                    ELSE SelectSeq(categories, LAMBDA c : c.id # cid)]

\* a category that a transaction referred to earlier is no longer in the
\* list: its transactions were deleted or re-pointed before it was deleted
C11_RemovedAfterReferences ==
  \E cid \in referenced :
    /\ cid \notin IdsOf(categories)
    /\ \A t \in Range(transactions) : t.category_id # cid

\* names the probes of C12 give to a Debt or Goal
OwnerProbeNames == {NameA, NameAPad, NameB}

\* some owner of the list other than `except` has the name n, trimmed and
\* case-folded
OwnerWithKey(owners, n, except) ==
  \E o \in Range(owners) : o.id # except /\ Key(o.name) = Key(n)

\* C12: no two distinct Debts and no two distinct Goals have names that are
\* equal after trimming and case-folding, and a create or rename of a Debt
\* (Goal) to the name of another Debt (Goal) is answered 409 and leaves the
\* dataset as it was.
C12_OwnerNamesUnique ==
  /\ \A i, j \in 1..Len(debts) : i # j => Key(debts[i].name) # Key(debts[j].name)
  /\ \A i, j \in 1..Len(goals) : i # j => Key(goals[i].name) # Key(goals[j].name)
  /\ \A n \in OwnerProbeNames :
       /\ OwnerWithKey(debts, n, NoId) =>
            api_add_debt(data, uuids, [name |-> n]) = Reply(data, 409, 0)
       /\ OwnerWithKey(goals, n, NoId) =>
            api_add_goal(data, uuids, [name |-> n, deadline |-> "future"])
              = Reply(data, 409, 0)
       /\ \A d \in Range(debts) :
            OwnerWithKey(debts, n, d.id) =>
              api_update_debt(data, uuids, d.id, [name |-> n]) = Reply(data, 409, 0)
       /\ \A g \in Range(goals) :
            OwnerWithKey(goals, n, g.id) =>
              api_update_goal(data, uuids, g.id, [name |-> n]) = Reply(data, 409, 0)

\* two Debts, one of them stored as "A" (sent as " A "): the other cannot be
\* renamed to "a", nor a third be created as "a"
C12_TwoDebtsOneFolded ==
  \E d1, d2 \in Range(debts) :
    /\ d1.id # d2.id
    /\ d1.name = <<"A">>
    /\ api_update_debt(data, uuids, d2.id, [name |-> NameA]).status = 409
    /\ api_add_debt(data, uuids, [name |-> NameA]).status = 409

\* the transaction a create stores for payload p on a category of type ctype
StoredTxn(p, ctype) ==
  [id |-> NewId(uuids, 1), date |-> "today", category_id |-> p.category_id,
   amount |-> p.amount, note |-> "", type |-> ctype, use_open_balance |-> FALSE,
   debt_claim |-> Get(p, "debt_claim", FALSE),
   goal_withdrawal |-> Get(p, "goal_withdrawal", FALSE)]

\* categories the probes name: the first of the list (a seed category) and
\* every category made since
ProbeCategories ==
  { categories[i] : i \in { j \in 1..Len(categories) :
                              j = 1 \/ categories[j].id > 2 * NumSeed } }

\* payloads of the creates that C13 probes: the amounts up to the largest
\* balance and a negative one, either flag
ProbeCreates(cid) ==
  { [category_id |-> cid, amount |-> a] @@ f :
      a \in Amounts \cup {MaxBalance},
      f \in {<<>>, [debt_claim |-> TRUE], [goal_withdrawal |-> TRUE],
             [debt_claim |-> TRUE, goal_withdrawal |-> TRUE]} }

\* C13: a transaction create on a category of the list is answered 201 and
\* appends the transaction with the category's type; a Debt (Goal) linked to
\* the category gets max(0, balance + debtEffect) (max(0, current +
\* goalEffect)); for a payable Debt and a non-claim amount a, 0 <= a <=
\* balance, the balance drops by a and deleting the transaction restores it.
\* A create whose category_id is not in the list is answered 400 and changes
\* nothing.
C13_CreateAppliesEffect ==
  /\ \A c \in ProbeCategories : \A p \in ProbeCreates(c.id) :
       LET r == api_add_txn(data, uuids, p)
           x == api_delete_txn(r.data, NewId(uuids, 1))
       IN  /\ r.status = 201
           /\ r.data.transactions = Append(transactions, StoredTxn(p, c.type))
           /\ \A i \in 1..Len(debts) :
                debts[i].linked_category_id = c.id =>
                  /\ r.data.debts[i].balance =
                       Max(0, debts[i].balance
                                + debtEffect(debts[i].kind, p.amount,
                                             Get(p, "debt_claim", FALSE)))
                  /\ ( /\ debts[i].kind = "payable"
                       /\ "debt_claim" \notin DOMAIN p
                       /\ 0 <= p.amount /\ p.amount <= debts[i].balance )
                     => /\ r.data.debts[i].balance = debts[i].balance - p.amount
                        /\ x.data.debts[i].balance = debts[i].balance
           /\ \A i \in 1..Len(goals) :
                goals[i].linked_category_id = c.id =>
                  r.data.goals[i].current =
                    Max(0, goals[i].current
                             + goalEffect(p.amount, Get(p, "goal_withdrawal", FALSE)))
  /\ \A cid \in {NoId, NewId(uuids, 1)} : \A p \in ProbeCreates(cid) :
       cid \notin IdsOf(categories) => api_add_txn(data, uuids, p) = Reply(data, 400, 0)
  /\ api_add_txn(data, uuids, <<>>) = Reply(data, 400, 0)

\* a payable Debt created with balance b >= 1 has one live transaction, a
\* plain payment of a >= 1 on its linked category, and balance b - a
C13_PaymentRecorded ==
  \E d \in Range(debts), t \in Range(transactions) :
    /\ d.kind = "payable" /\ d.id \in DOMAIN debtBase
    /\ t.category_id = d.linked_category_id
    /\ ~t.debt_claim /\ t.amount >= 1
    /\ t.type = "expense"
    /\ d.balance = debtBase[d.id] - t.amount

\* payloads of the updates that C14 probes: a new category, a new amount, a
\* flag set or cleared, and their combinations
ProbeUpdates ==
  { c @@ a @@ f :
      c \in Opt("category_id", { x.id : x \in ProbeCategories }),
      a \in Opt("amount", {-1, MaxAmount}),
      f \in {<<>>} \cup Req("debt_claim", BOOLEAN) \cup Req("goal_withdrawal", BOOLEAN) }

\* the value an owner linked to category `linked` has after the update of
\* transaction t by p, as C14 states it: the old effect taken off the owner
\* of the old category, then the new effect added to the owner of the new
\* category, each clamped at 0
AfterUpdate(v, linked, t, p, old_eff, new_eff) ==
  LET v1 == IF linked = t.category_id THEN Max(0, v - old_eff) ELSE v
  IN  IF linked = Get(p, "category_id", t.category_id) THEN Max(0, v1 + new_eff) ELSE v1

\* the scenario of C14 on a Goal created now: deposit 50, edit to 80, then a
\* withdrawal of 20
GoalScenario ==
  LET r0 == api_add_goal(data, uuids, [name |-> NameB, target |-> 500,
                                       deadline |-> "future"])
      gi == Len(r0.data.goals)
      l  == r0.data.goals[gi].linked_category_id
      u1 == uuids + r0.ids
      r1 == api_add_txn(r0.data, u1, [category_id |-> l, amount |-> 50])
      r2 == api_update_txn(r1.data, NewId(u1, 1), [amount |-> 80])
      r3 == api_add_txn(r2.data, u1 + 1,
                        [category_id |-> l, amount |-> 20, goal_withdrawal |-> TRUE])
  IN  r0.status = 201 =>
        /\ r1.data.goals[gi].current = 50
        /\ r2.status = 200 /\ r2.data.goals[gi].current = 80
        /\ r3.status = 201 /\ r3.data.goals[gi].current = 60

\* C14: a transaction update to a category of the list is answered 200; it
\* takes the old effect (stored category, amount and flags) off the Debt or
\* Goal linked to the old category and adds the new effect (merged values)
\* to the Debt or Goal linked to the new category, clamping each step at 0,
\* so that a re-pointed transaction leaves its first owner and reaches the
\* second.  On a Goal created now, a deposit of 50 edited to 80 gives
\* current 80, and a further withdrawal of 20 gives 60.
C14_UpdateRevertsThenApplies ==
  /\ \A ti \in 1..Len(transactions) : \A p \in ProbeUpdates :
       LET t  == transactions[ti]
           r  == api_update_txn(data, t.id, p)
           na == Get(p, "amount", t.amount)
       IN  /\ r.status = 200
           /\ \A i \in 1..Len(debts) :
                r.data.debts[i].balance =
                  AfterUpdate(debts[i].balance, debts[i].linked_category_id, t, p,
                              debtEffect(debts[i].kind, t.amount, t.debt_claim),
                              debtEffect(debts[i].kind, na,
                                         Get(p, "debt_claim", t.debt_claim)))
           /\ \A i \in 1..Len(goals) :
                r.data.goals[i].current =
                  AfterUpdate(goals[i].current, goals[i].linked_category_id, t, p,
                              goalEffect(t.amount, t.goal_withdrawal),
                              goalEffect(na, Get(p, "goal_withdrawal", t.goal_withdrawal)))
  /\ GoalScenario

\* an edited transaction of amount a >= 1 is on a Goal's linked category and
\* the Goal has current a, while the Debt of the dataset has the balance it
\* was created with: the deposit is with the Goal alone
C14_EditedDepositOnGoal ==
  \E d \in Range(debts), g \in Range(goals), t \in Range(transactions) :
    /\ t.note = "edited" /\ t.category_id = g.linked_category_id
    /\ ~t.goal_withdrawal /\ t.amount >= 1 /\ g.current = t.amount
    /\ d.id \in DOMAIN debtBase /\ d.balance = debtBase[d.id]

\* amounts the effect helpers are compared on: a range around 0 and the
\* amounts on record
EffectAmounts ==
  ((-MaxBalance)..MaxBalance) \cup { t.amount : t \in Range(transactions) }

\* C15: the Debt effect is +|amount| when debt_claim is set and the kind is
\* receivable and -|amount| in every other case; the Goal effect is -amount
\* for a withdrawal and +amount otherwise; the copies of the two helpers in
\* create, update and delete agree on every input.
C15_EffectHelpers ==
  /\ \A kind \in Kinds, a \in EffectAmounts, f \in BOOLEAN :
       LET e == IF f /\ kind = "receivable" THEN Abs(a) ELSE -Abs(a)
       IN  /\ add_debt_effect(kind, a, f) = e
           /\ update_debt_effect(kind, a, f) = e
           /\ delete_debt_effect(kind, a, f) = e
  /\ \A a \in EffectAmounts, w \in BOOLEAN :
       LET e == IF w THEN -a ELSE a
       IN  /\ add_goal_effect(a, w) = e
           /\ update_goal_effect(a, w) = e
           /\ delete_goal_effect(a, w) = e

\* a claim of non-zero amount is on record against a receivable Debt, whose
\* balance is the balance it was created with plus |amount|
C15_ClaimRaisedReceivable ==
  \E d \in Range(debts), t \in Range(transactions) :
    /\ d.kind = "receivable" /\ d.id \in DOMAIN debtBase
    /\ t.category_id = d.linked_category_id
    /\ t.debt_claim /\ t.amount # 0
    /\ d.balance = debtBase[d.id] + Abs(t.amount)

\* the fields of a transaction that a request may set
TxnFields == {"date", "category_id", "amount", "note", "use_open_balance",
              "debt_claim", "goal_withdrawal"}

\* payloads of the updates that C16 probes: none of the fields, each field
\* alone, and two of them together
FrameUpdates ==
  {<<>>, [note |-> "n", amount |-> MaxAmount]}
    \cup Req("date", {"past"}) \cup Req("note", {"n"})
    \cup Req("category_id", { x.id : x \in ProbeCategories })
    \cup Req("amount", {-1, MaxAmount})
    \cup Req("use_open_balance", BOOLEAN) \cup Req("debt_claim", BOOLEAN)
    \cup Req("goal_withdrawal", BOOLEAN)

NamedFor(name, base) ==
  \/ name = base
  \/ \E n \in 2..(Len(categories) + 2) : name = base \o <<" ">> \o Digits(n)

\* in dataset d the owner o has a linked category of type ctype named for base
LinkedAs(d, o, ctype, base) ==
  \E c \in Range(d.categories) :
    /\ c.id = o.linked_category_id
    /\ c.type = ctype
    /\ NamedFor(c.name, base)

DebtCategoryType(o) == IF o.kind = "payable" THEN "expense" ELSE "income"

\* requests C17 probes: creates and renames by each name, one of them blank,
\* and changes of kind
OwnerCreateProbes == Req("name", OwnerProbeNames \cup {NameBlank})
DebtUpdateProbes  == Req("name", OwnerProbeNames) \cup Req("kind", Kinds)
GoalUpdateProbes  == Req("name", OwnerProbeNames) \cup Req("target", {5})

\* what C17 says with the owner's name written as nameOf gives it: after a
\* successful create the new owner, and after a successful update the
\* updated owner, has its linked category typed by its kind and named for
\* "<name> - Debt" ("<name> - Goal"); an update keeps the category's id and
\* adds no category
LinkedCategoryFollows(nameOf(_, _)) ==
  /\ \A p \in OwnerCreateProbes :
       LET r == api_add_debt(data, uuids, p)
           o == r.data.debts[Len(r.data.debts)]
       IN  r.status = 201 =>
             LinkedAs(r.data, o, DebtCategoryType(o), nameOf(o, DefaultDebt) \o DebtSuffix)
  /\ \A p \in OwnerCreateProbes :
       LET r == api_add_goal(data, uuids, p @@ [deadline |-> "future"])
           o == r.data.goals[Len(r.data.goals)]
       IN  r.status = 201 =>
             LinkedAs(r.data, o, "saving", nameOf(o, DefaultGoal) \o GoalSuffix)
  /\ \A i \in 1..Len(debts) : \A p \in DebtUpdateProbes :
       LET r == api_update_debt(data, uuids, debts[i].id, p)
           o == r.data.debts[i]
       IN  r.status = 200 =>
             /\ LinkedAs(r.data, o, DebtCategoryType(o), nameOf(o, DefaultDebt) \o DebtSuffix)
             /\ o.linked_category_id = debts[i].linked_category_id
             /\ IdsOf(r.data.categories) = IdsOf(categories) /\ r.ids = 0
  /\ \A i \in 1..Len(goals) : \A p \in GoalUpdateProbes :
       LET r == api_update_goal(data, uuids, goals[i].id, p)
           o == r.data.goals[i]
       IN  r.status = 200 =>
             /\ LinkedAs(r.data, o, "saving", nameOf(o, DefaultGoal) \o GoalSuffix)
             /\ o.linked_category_id = goals[i].linked_category_id
             /\ IdsOf(r.data.categories) = IdsOf(categories) /\ r.ids = 0

UniquifierBases ==
  {NameA \o DebtSuffix, <<" ">> \o NameA \o DebtSuffix \o <<" ">>, NameA, Salary}

\* base followed by " i"
Numbered(base, i) == base \o <<" ">> \o Digits(i)

\* C18: the uniquifier returns the trimmed base name when no active category
\* other than the excluded one has it (case-folded), and else the trimmed
\* base followed by " i" for the least i >= 2 whose candidate is the name of
\* no such category; soft-deleted categories and the excluded one are no
\* collisions, so for the id and the name of any active category it returns
\* that name.
C18_UniquifierLeastFree ==
  /\ \A desired \in UniquifierBases, ex \in {NoId} \cup { x.id : x \in ProbeCategories } :
       LET base   == Strip(desired)
           taken  == { Key(c.name) : c \in { x \in Range(categories) :
                                               x.id # ex /\ ~x.deleted } }
           result == _unique_name_excluding(data, desired, ex)
       IN  IF Casefold(base) \notin taken
             THEN result = base
             ELSE \E i \in 2..(Len(categories) + 2) :
                    /\ result = Numbered(base, i)
                    /\ Casefold(Numbered(base, i)) \notin taken
                    /\ \A j \in 2..(i - 1) : Casefold(Numbered(base, j)) \in taken
  /\ \A c \in Range(categories) :
       ~c.deleted => _unique_name_excluding(data, c.name, c.id) = c.name

\* the linked category of a Debt was renamed in place to its base name
\* followed by " 2": the base name is held by an active category that was
\* created after it
C18_RenamedInPlaceToSecond ==
  \E d \in Range(debts), c \in Range(categories), o \in Range(categories) :
    /\ c.id = d.linked_category_id
    /\ c.name = Numbered(Strip(d.name) \o DebtSuffix, 2)
    /\ ~o.deleted /\ c.id < o.id
    /\ Key(o.name) = Key(Strip(d.name) \o DebtSuffix)

\* the categories with the one of id cid marked deleted, none removed
SoftDeleted(cid) ==
  [i \in 1..Len(categories) |->
     IF categories[i].id = cid THEN [categories[i] EXCEPT !.deleted = TRUE]
     ELSE categories[i]]

\* C19: deleting a Debt or Goal of the list is answered 200, takes the owner
\* off its list and marks its linked category deleted without removing it,
\* whether or not a transaction refers to the category; the transactions,
\* the owners of the other kind and open_balance stay as they were, so every
\* transaction on the linked category still finds it in the list.
C19_OwnerDeleteSoftDeletes ==
  /\ \A d \in Range(debts) :
       LET r == api_delete_debt(data, d.id)
       IN  /\ r.status = 200
           /\ r.data = [data EXCEPT
                          !.debts = SelectSeq(debts, LAMBDA x : x.id # d.id),
                          !.categories = SoftDeleted(d.linked_category_id)]
           /\ d.linked_category_id \in IdsOf(r.data.categories)
  /\ \A g \in Range(goals) :
       LET r == api_delete_goal(data, g.id)
       IN  /\ r.status = 200
           /\ r.data = [data EXCEPT
                          !.goals = SelectSeq(goals, LAMBDA x : x.id # g.id),
                          !.categories = SoftDeleted(g.linked_category_id)]
           /\ g.linked_category_id \in IdsOf(r.data.categories)

\* the linked category of a deleted owner is in the list, marked deleted,
\* and a transaction on record refers to it
C19_KeptAfterDelete ==
  \E c \in Range(categories) :
    /\ c.id \in DOMAIN locked
    /\ c.deleted
    /\ c.id \notin LinkedIds
    /\ \E t \in Range(transactions) : t.category_id = c.id

\* the file as the handlers read it
File(c, t, d, g, ob) == Dataset(c, t, d, g, ob)

\* C20: nothing orders the steps of two requests: a thread may load while
\* another is between its load and its save. When a thread saves, the file
\* becomes the dict that thread made from what it loaded, alone: every
\* transaction and every Debt that another thread saved after that load is
\* gone from the file, and a Debt balance is the loaded one with this
\* thread's effect only.
C20_LastSaverAlone ==
  [][\A t \in Threads :
       (inflight[t].busy /\ ~inflight'[t].busy /\ inflight[t].status < 400)
       => /\ File(categories', transactions', debts', goals', open_balance')
               = inflight[t].mem
          /\ IdsOf(transactions') \cap (IdsOf(transactions)
                                        \ IdsOf(inflight[t].loaded.transactions))
               = {}
          /\ IdsOf(debts') \cap (IdsOf(debts) \ IdsOf(inflight[t].loaded.debts))
               = {}]_vars

\* two transaction creates on the category of a Debt were served, each
\* minted its id, and the file has one transaction and one effect on the
\* balance the Debt was created with
C20_OneOfTwoCreatesRecorded ==
  /\ \A t \in Threads : ~inflight[t].busy
  /\ Len(debts) = 1 /\ Len(transactions) = 1
  /\ uuids = 2 * Len(debts) + 2
  /\ transactions[1].category_id = debts[1].linked_category_id
  /\ debts[1].balance = MaxBalance - transactions[1].amount

\* the transactions on record that refer to category cid
TxnsOn(txns, cid) == { t \in Range(txns) : t.category_id = cid }

\* C21: the requests that create and update Goals carry a current field.
\* A Goal that a step adds to the list has current 0, and the current of a
\* Goal that stays in the list changes only in a transaction create, update
\* or delete on the Goal's linked category: a step that changes the
\* transactions on that category, or the update of one of them that leaves
\* it as it was.  A goal update, and every other request, leaves current
\* as it was.
C21_CurrentOnlyByTransactions ==
  [][\A g \in Range(goals') :
       IF g.id \notin IdsOf(goals) THEN g.current = 0
       ELSE LET old == goals[IndexOf(goals, g.id)]
                on  == TxnsOn(transactions, old.linked_category_id)
            IN  g.current # old.current
                => /\ g.linked_category_id = old.linked_category_id
                   /\ \/ TxnsOn(transactions', g.linked_category_id) # on
                      \/ \E t \in on, p \in TxnUpdatePayloads("ledger") :
                           Dataset(categories', transactions', debts', goals',
                                   open_balance')
                             = api_update_txn(data, t.id, p).data]_vars

\* a Goal with progress made by a transaction has been updated by a request
\* that carried a target and a current of its own
C21_UpdatedGoalWithProgress ==
  \E g \in Range(goals) :
    /\ g.target = 5
    /\ g.current > 0 /\ g.current # MaxBalance
    /\ TxnsOn(transactions, g.linked_category_id) # {}

\* the linked_category_id of every Debt, then of every Goal
OwnerLinks ==
  [i \in 1..Len(debts) |-> debts[i].linked_category_id]
    \o [i \in 1..Len(goals) |-> goals[i].linked_category_id]

\* C22: in every reachable state the linked category of every Debt and Goal
\* of the lists is in the categories list with deleted = false, and no two
\* owners (two Debts, two Goals, a Debt and a Goal) have the same
\* linked_category_id.
C22_LinkedActiveUnshared ==
  /\ \A i \in DOMAIN OwnerLinks :
       \E c \in Range(categories) : c.id = OwnerLinks[i] /\ ~c.deleted
  /\ \A i, j \in DOMAIN OwnerLinks : OwnerLinks[i] = OwnerLinks[j] => i = j

\* a Debt was created again under the name of a deleted Debt, whose linked
\* category is still in the list, marked deleted
C22_RecreatedBesideDeleted ==
  \E d \in Range(debts), c \in Range(categories) :
    /\ c.deleted /\ c.id \in DOMAIN locked
    /\ c.id # d.linked_category_id
    /\ Key(c.name) = Casefold(Strip(OrElse(d.name, DefaultDebt)) \o DebtSuffix)

\* payloads of the creates and updates that C23 probes
OtherCreates(cid) ==
  { [category_id |-> cid, amount |-> MaxAmount] @@ f :
      f \in {<<>>, [debt_claim |-> TRUE, goal_withdrawal |-> TRUE]} }

OtherUpdates ==
  { c @@ a : c \in Opt("category_id", { x.id : x \in ProbeCategories }),
             a \in Opt("amount", {0}) }

\* the owners whose linked category is not among `touched` are as they were
OthersKept(owners, after, touched) ==
  /\ Len(after) = Len(owners)
  /\ \A i \in 1..Len(owners) :
       owners[i].linked_category_id \notin touched => after[i] = owners[i]

\* the categories and open_balance are as they were, and so is every Debt
\* and Goal that links to none of the categories `touched`
OnlyLinkedChanged(after, touched) ==
  /\ after.categories = categories
  /\ after.open_balance = open_balance
  /\ OthersKept(debts, after.debts, touched)
  /\ OthersKept(goals, after.goals, touched)

\* C23: a transaction create, update or delete leaves the categories list
\* and open_balance as they were, and leaves every Debt and Goal as it was
\* unless its linked category is the transaction's old or new category_id;
\* a transaction on a category that no Debt or Goal of the lists links to
\* changes no Debt and no Goal.
C23_TransactionsTouchLinkedOnly ==
  /\ \A c \in ProbeCategories : \A p \in OtherCreates(c.id) :
       OnlyLinkedChanged(api_add_txn(data, uuids, p).data, {c.id})
  /\ \A t \in Range(transactions) :
       /\ \A p \in OtherUpdates :
            OnlyLinkedChanged(api_update_txn(data, t.id, p).data,
                              {t.category_id, Get(p, "category_id", t.category_id)})
       /\ OnlyLinkedChanged(api_delete_txn(data, t.id).data, {t.category_id})

\* a Debt is in the list with a balance, open_balance is set, and a
\* transaction with an amount is on the soft-deleted linked category of a
\* deleted owner
C23_OnCategoryOfDeletedOwner ==
  /\ \E d \in Range(debts) : d.balance > 0
  /\ open_balance # 0
  /\ \E t \in Range(transactions), c \in Range(categories) :
       /\ t.amount # 0 /\ t.category_id = c.id
       /\ c.deleted /\ c.id \in DOMAIN locked /\ c.id \notin LinkedIds

====
